---- MODULE Spec2Model ----
(***************************************************************************)
(* Model of the SSML composer of AGMI Studio (src/utils/api.ts, the two    *)
(* variants of utils/ssml.ts held in that file: lines 101-337, with the    *)
(* engineering sliders and pause insertion, and lines 339-497, with        *)
(* emphasis / solemnity / pacing).                                         *)
(*                                                                         *)
(* A JavaScript string is a sequence of one-character strings.  A numeric  *)
(* setting x is held as the integer 1000 * x (thousandths), so 0.95 is 950;*)
(* on the values the model draws, Math.round on IEEE doubles and the exact *)
(* rounding used here give the same integer.                               *)
(* Where the two variants define a function of the same name differently,  *)
(* the second variant's definition carries the suffix 2.                   *)
(***************************************************************************)
EXTENDS Integers, Sequences, FiniteSets, TLC

VARIABLES content, terms, settings, language, hasIPA, op, out, warnings

vars == <<content, terms, settings, language, hasIPA, op, out, warnings>>

----------------------------------------------------------------------------
(* Vendors: enum TTSVendor.                                                *)

GOOGLE == "google"
ELEVENLABS == "elevenlabs"
OPENAI == "openai"
TTSVendor == {GOOGLE, ELEVENLABS, OPENAI}

(* An absent optional field (Term.ipa?: string): a value that is no string *)
(* of characters.                                                          *)
Undefined == <<"undefined">>

(* JavaScript truthiness of an optional string: defined and non-empty.     *)
Truthy(x) == x # Undefined /\ x # <<>>

----------------------------------------------------------------------------
(* Strings.                                                                *)

Min(S) == CHOOSE x \in S : \A y \in S : x <= y

(* s.substring(i - 1) in 1-based positions: the text from position i on.   *)
From(s, i) == SubSeq(s, i, Len(s))

(* The occurrences of sub in s (their first positions).                    *)
Occurrences(s, sub) ==
    {i \in 1..(Len(s) - Len(sub) + 1) : SubSeq(s, i, i + Len(sub) - 1) = sub}

Contains(s, sub) == Occurrences(s, sub) # {}

(* String.prototype.replace(/c/g, by) for a single literal character c:    *)
(* every occurrence, left to right, in one pass over the receiver.         *)
RECURSIVE ReplaceChar(_, _, _)
ReplaceChar(s, c, by) ==
    LET hits == {i \in 1..Len(s) : s[i] = c}
    IN  IF hits = {} THEN s
        ELSE LET i == Min(hits)
             IN  SubSeq(s, 1, i - 1) \o by \o ReplaceChar(From(s, i + 1), c, by)

(* escapeXml with the replace of '<' left out.                             *)
EscapeXmlNoLt(text) ==
    ReplaceChar(ReplaceChar(ReplaceChar(ReplaceChar(text,
        "&", <<"&","a","m","p",";">>),
        ">", <<"&","g","t",";">>),
        "\"", <<"&","q","u","o","t",";">>),
        "'", <<"&","a","p","o","s",";">>)

(* escapeXml with the replace of "'" left out.                             *)
EscapeXmlNoApos(text) ==
    ReplaceChar(ReplaceChar(ReplaceChar(ReplaceChar(text,
        "&", <<"&","a","m","p",";">>),
        "<", <<"&","l","t",";">>),
        ">", <<"&","g","t",";">>),
        "\"", <<"&","q","u","o","t",";">>)

(* escapeXml with the replace of '&' done last.                            *)
EscapeXmlAmpLast(text) ==
    ReplaceChar(ReplaceChar(ReplaceChar(ReplaceChar(ReplaceChar(text,
        "<", <<"&","l","t",";">>),
        ">", <<"&","g","t",";">>),
        "\"", <<"&","q","u","o","t",";">>),
        "'", <<"&","a","p","o","s",";">>),
        "&", <<"&","a","m","p",";">>)

(* escapeXml: five chained global replaces, '&' first.                     *)
escapeXml(text) ==
    ReplaceChar(ReplaceChar(ReplaceChar(ReplaceChar(ReplaceChar(text,
        "&", <<"&","a","m","p",";">>),
        "<", <<"&","l","t",";">>),
        ">", <<"&","g","t",";">>),
        "\"", <<"&","q","u","o","t",";">>),
        "'", <<"&","a","p","o","s",";">>)

----------------------------------------------------------------------------
(* Regular expressions of insertPhonemes.                                  *)

Uppers == <<"A","B","C","D","E","F","G","H","I","J","K","L","M",
            "N","O","P","Q","R","S","T","U","V","W","X","Y","Z">>
Lowers == <<"a","b","c","d","e","f","g","h","i","j","k","l","m",
            "n","o","p","q","r","s","t","u","v","w","x","y","z">>
Digits == <<"0","1","2","3","4","5","6","7","8","9">>

Range(f) == {f[i] : i \in DOMAIN f}

(* String.prototype.toLowerCase, on one character and on a string.         *)
toLowerCaseChar(c) ==
    IF c \in Range(Uppers) THEN Lowers[CHOOSE i \in 1..26 : Uppers[i] = c] ELSE c

toLowerCase(s) == [i \in 1..Len(s) |-> toLowerCaseChar(s[i])]

(* \w of a RegExp without the u flag: [A-Za-z0-9_].                        *)
IsWordChar(c) == c \in Range(Uppers) \cup Range(Lowers) \cup Range(Digits) \cup {"_"}

(* The characters escapeRegExp prefixes with a backslash.                  *)
RegExpSpecial == {".", "*", "+", "?", "^", "$", "{", "}", "(", ")", "|", "[", "]", "\\"}

RECURSIVE Flatten(_)
Flatten(ss) == IF ss = <<>> THEN <<>> ELSE ss[1] \o Flatten(Tail(ss))

(* escapeRegExp that escapes nothing.                                      *)
EscapeRegExpNone(string) == string

(* escapeRegExp: string.replace(/[.*+?^${}()|[\]\\]/g, '\\$&').            *)
escapeRegExp(string) ==
    Flatten([i \in 1..Len(string) |->
        IF string[i] \in RegExpSpecial THEN <<"\\", string[i]>> ELSE <<string[i]>>])

(* The body of a pattern source as the RegExp constructor reads it: a      *)
(* backslash makes the next character a literal, an unescaped '.' matches  *)
(* any character but a line terminator, any other character is a literal.  *)
RECURSIVE Compile(_)
Compile(src) ==
    IF src = <<>> THEN <<>>
    ELSE IF src[1] = "\\" /\ Len(src) >= 2
         THEN <<[kind |-> "lit", ch |-> src[2]]>> \o Compile(From(src, 3))
    ELSE IF src[1] = "."
         THEN <<[kind |-> "any", ch |-> "."]>> \o Compile(Tail(src))
    ELSE <<[kind |-> "lit", ch |-> src[1]]>> \o Compile(Tail(src))

(* One pattern character against one subject character, flag i.            *)
TokenMatches(tok, c) ==
    IF tok.kind = "any" THEN c \notin {"\n", "\r"}
    ELSE toLowerCaseChar(tok.ch) = toLowerCaseChar(c)

(* \b between positions p - 1 and p of s.                                  *)
WordAt(s, q) == q \in 1..Len(s) /\ IsWordChar(s[q])
WordBoundary(s, p) == WordAt(s, p - 1) # WordAt(s, p)

(* The pattern without its two \b.                                         *)
MatchAtNoBoundary(s, i, toks) ==
    /\ i + Len(toks) - 1 <= Len(s)
    /\ \A k \in 1..Len(toks) : TokenMatches(toks[k], s[i + k - 1])

(* new RegExp(`\\b${...}\\b`, 'gi') matches at position i of s.            *)
MatchAt(s, i, toks) ==
    /\ i + Len(toks) - 1 <= Len(s)
    /\ \A k \in 1..Len(toks) : TokenMatches(toks[k], s[i + k - 1])
    /\ WordBoundary(s, i)
    /\ WordBoundary(s, i + Len(toks))

(* The replacement with the matched text in the place of the term's text,  *)
(* as '$&' would write it.                                                 *)
RECURSIVE ReplaceTermKeepingMatch(_, _, _, _)
ReplaceTermKeepingMatch(s, start, toks, by) ==
    LET hits == {i \in start..Len(s) : MatchAt(s, i, toks)}
        close == <<"<","/","p","h","o","n","e","m","e",">">>
    IN  IF hits = {} \/ toks = <<>> THEN From(s, start)
        ELSE LET i == Min(hits)
             IN  SubSeq(s, start, i - 1)
                     \o SubSeq(by, 1, Len(by) - Len(close) - Len(toks))
                     \o SubSeq(s, i, i + Len(toks) - 1) \o close
                     \o ReplaceTermKeepingMatch(s, i + Len(toks), toks, by)

(* replace without the g flag: the first match only.                       *)
ReplaceTermFirst(s, start, toks, by) ==
    LET hits == {i \in start..Len(s) : MatchAt(s, i, toks)}
    IN  IF hits = {} THEN From(s, start)
        ELSE SubSeq(s, start, Min(hits) - 1) \o by \o From(s, Min(hits) + Len(toks))

(* The matches a global replace finds from position start on: leftmost     *)
(* first, the search resuming after each match, and one character further  *)
(* on after a match of the empty pattern (which can also match at the end  *)
(* of s).                                                                  *)
RECURSIVE ReplaceTermFrom(_, _, _, _)
ReplaceTermFrom(s, start, toks, by) ==
    LET hits == {i \in start..(Len(s) + 1) : MatchAt(s, i, toks)}
    IN  IF hits = {} THEN From(s, start)
        ELSE LET i == Min(hits)
             IN  IF toks = <<>>
                 THEN SubSeq(s, start, i - 1) \o by
                          \o (IF i > Len(s) THEN <<>>
                              ELSE <<s[i]>> \o ReplaceTermFrom(s, i + 1, toks, by))
                 ELSE SubSeq(s, start, i - 1) \o by
                          \o ReplaceTermFrom(s, i + Len(toks), toks, by)

(* result.replace(regex, replacement) of insertPhonemes.  The replacement  *)
(* is taken literally: no term text or transcription of the model holds a  *)
(* '$', which String.prototype.replace would read as a pattern.            *)
ReplaceTerm(s, text, by) == ReplaceTermFrom(s, 1, Compile(escapeRegExp(text)), by)

PhonemeOpen == <<"<","p","h","o","n","e","m","e"," ","a","l","p","h","a","b","e","t",
                 "=","\"","i","p","a","\""," ","p","h","=","\"">>
PhonemeClose == <<"<","/","p","h","o","n","e","m","e",">">>

(* `<phoneme alphabet="ipa" ph="${term.ipa}">${term.text}</phoneme>`       *)
PhonemeSpan(term) == PhonemeOpen \o term.ipa \o <<"\"", ">">> \o term.text \o PhonemeClose

(* The filter on the transcription alone.                                  *)
FilterTermsIpaOnly(ts) == SelectSeq(ts, LAMBDA t : Truthy(t.ipa))

(* [...terms].filter(t => t.ipa && t.text)                                 *)
FilterTerms(ts) == SelectSeq(ts, LAMBDA t : Truthy(t.ipa) /\ Truthy(t.text))

(* .sort((a, b) => b.text.length - a.text.length): stable, longest first.  *)
RECURSIVE SortLongestFirst(_)
SortLongestFirst(ts) ==
    IF ts = <<>> THEN <<>>
    ELSE LET n == Len(ts)
             rest == SortLongestFirst(SubSeq(ts, 1, n - 1))
             x == ts[n]
             k == Cardinality({j \in 1..Len(rest) : Len(rest[j].text) >= Len(x.text)})
         IN  SubSeq(rest, 1, k) \o <<x>> \o SubSeq(rest, k + 1, Len(rest))

sortedTerms(ts) == SortLongestFirst(FilterTerms(ts))

(* The sort called on the array passed in.                                 *)
TermsSortedInPlace(ts) == SortLongestFirst(ts)

(* The array passed in after the call: [...terms] and filter give the sort *)
(* a copy, so the caller's array keeps its terms and their order.          *)
TermsArgument(ts) == ts

(* The loop of insertPhonemes over sortedTerms.                            *)
RECURSIVE ApplyTerms(_, _, _)
ApplyTerms(result, sorted, vendor) ==
    IF sorted = <<>> THEN result
    ELSE LET term == sorted[1]
             next == IF ~Truthy(term.ipa) THEN result
                     ELSE IF vendor = GOOGLE
                          THEN ReplaceTerm(result, term.text, PhonemeSpan(term))
                          ELSE result
         IN  ApplyTerms(next, Tail(sorted), vendor)

insertPhonemes(c, ts, vendor) ==
    IF ts = <<>> THEN escapeXml(c)
    ELSE LET result == ApplyTerms(c, sortedTerms(ts), vendor)
         IN  IF vendor = GOOGLE THEN result ELSE escapeXml(result)

----------------------------------------------------------------------------
(* Numbers.  Math.round(n / d) for d > 0: the nearest integer, a tie going *)
(* up (Math.round(-0.5) is -0, printed "0").                               *)

MathRound(n, d) == (2 * n + d) \div (2 * d)

RECURSIVE NatToStr(_)
NatToStr(n) ==
    IF n < 10 THEN <<Digits[n + 1]>>
    ELSE NatToStr(n \div 10) \o <<Digits[(n % 10) + 1]>>

(* `${n}` of an integer-valued number.                                     *)
NumToStr(n) == IF n < 0 THEN <<"-">> \o NatToStr(-n) ELSE NatToStr(n)

----------------------------------------------------------------------------
(* Parameter mapping, first variant (lines 101-337).                       *)

getExpressivenessLevel(expressiveness) ==
    IF expressiveness <= 200 THEN <<"n","o","n","e">>
    ELSE IF expressiveness <= 500 THEN <<"r","e","d","u","c","e","d">>
    ELSE IF expressiveness <= 800 THEN <<"m","o","d","e","r","a","t","e">>
    ELSE <<"s","t","r","o","n","g">>

(* Math.round(80 + (pacing - 0.5) * 40)                                    *)
PacingPercentage(pacing) == MathRound(80 * 1000 + (pacing - 500) * 40, 1000)

getPacingRate(pacing) == NumToStr(PacingPercentage(pacing)) \o <<"%">>

getPitchShift(pitch) ==
    LET semitones == MathRound((pitch - 1000) * 8, 1000)
    IN  IF semitones > 0 THEN <<"+">> \o NumToStr(semitones) \o <<"s","t">>
        ELSE NumToStr(semitones) \o <<"s","t">>

getAmbienceVolume(ambience) ==
    LET db == MathRound((ambience - 500) * 4, 1000)
    IN  IF db > 0 THEN <<"+">> \o NumToStr(db) \o <<"d","B">>
        ELSE NumToStr(db) \o <<"d","B">>

(* Parameter mapping, second variant (lines 339-497).                      *)

(* The thresholds read with <=.                                            *)
GetEmphasisLevelInclusive(emphasis) ==
    IF emphasis <= 500 THEN <<"r","e","d","u","c","e","d">>
    ELSE IF emphasis <= 1000 THEN <<"n","o","n","e">>
    ELSE IF emphasis <= 1500 THEN <<"m","o","d","e","r","a","t","e">>
    ELSE <<"s","t","r","o","n","g">>

(* The two lowest levels in the order getExpressivenessLevel has them.     *)
GetEmphasisLevelNoneFirst(emphasis) ==
    IF emphasis < 500 THEN <<"n","o","n","e">>
    ELSE IF emphasis < 1000 THEN <<"r","e","d","u","c","e","d">>
    ELSE IF emphasis < 1500 THEN <<"m","o","d","e","r","a","t","e">>
    ELSE <<"s","t","r","o","n","g">>

getEmphasisLevel(emphasis) ==
    IF emphasis < 500 THEN <<"r","e","d","u","c","e","d">>
    ELSE IF emphasis < 1000 THEN <<"n","o","n","e">>
    ELSE IF emphasis < 1500 THEN <<"m","o","d","e","r","a","t","e">>
    ELSE <<"s","t","r","o","n","g">>

(* Math.round(pacing * 100)                                                *)
PacingPercentage2(pacing) == MathRound(pacing * 100, 1000)

getPacingRate2(pacing) == NumToStr(PacingPercentage2(pacing)) \o <<"%">>

(* The adjustment with the sign of (solemnity - 1).                        *)
GetPitchFromSolemnityRising(solemnity) ==
    LET adjustment == MathRound((solemnity - 1000) * 20, 1000)
    IN  IF adjustment >= 0 THEN <<"+">> \o NumToStr(adjustment) \o <<"%">>
        ELSE NumToStr(adjustment) \o <<"%">>

getPitchFromSolemnity(solemnity) ==
    LET adjustment == MathRound((1000 - solemnity) * 20, 1000)
    IN  IF adjustment >= 0 THEN <<"+">> \o NumToStr(adjustment) \o <<"%">>
        ELSE NumToStr(adjustment) \o <<"%">>

----------------------------------------------------------------------------
(* Pause insertion.                                                        *)

(* \s over the characters the model uses.                                  *)
IsSpace(c) == c \in {" ", "\t", "\n", "\r"}

BreakTag(time) ==
    <<"<","b","r","e","a","k"," ","t","i","m","e","=","\"">> \o NumToStr(time)
        \o <<"m","s","\"","/",">">>

(* The length of the match of /(P)\s*/: white space not required.          *)
PunctMatchLenAnySpace(s, i, puncts) ==
    IF s[i] \in puncts
    THEN LET ends == {j \in i..Len(s) : \A k \in (i + 1)..j : IsSpace(s[k])}
         IN  (CHOOSE j \in ends : \A e \in ends : e <= j) - i + 1
    ELSE 0

(* The length of the match of /(P)\s+/ at position i of s, P a character   *)
(* of puncts; 0 when there is none.  \s+ is greedy.                        *)
PunctMatchLen(s, i, puncts) ==
    IF i + 1 <= Len(s) /\ s[i] \in puncts /\ IsSpace(s[i + 1])
    THEN LET ends == {j \in (i + 1)..Len(s) :
                         \A k \in (i + 1)..j : IsSpace(s[k])}
         IN  (CHOOSE j \in ends : \A e \in ends : e <= j) - i + 1
    ELSE 0

(* result.replace(/(P)\s+/g, `$1 ${tag} `)                                 *)
RECURSIVE ReplacePunct(_, _, _, _)
ReplacePunct(s, start, puncts, tag) ==
    LET hits == {i \in start..Len(s) : PunctMatchLen(s, i, puncts) > 0}
    IN  IF hits = {} THEN From(s, start)
        ELSE LET i == Min(hits)
             IN  SubSeq(s, start, i - 1) \o <<s[i], " ">> \o tag \o <<" ">>
                     \o ReplacePunct(s, i + PunctMatchLen(s, i, puncts), puncts, tag)

commaTime(pausing) == MathRound(200 * 1000 + (pausing - 200) * 300, 1000)
sentenceTime(pausing) == MathRound(400 * 1000 + (pausing - 200) * 600, 1000)

(* Comma breaks from 0.5 on.                                               *)
InsertPausingCommasFromHalf(c, pausing) ==
    IF pausing <= 200 THEN c
    ELSE LET result == ReplacePunct(c, 1, {".", "?", "!"}, BreakTag(sentenceTime(pausing)))
         IN  IF pausing >= 500
             THEN ReplacePunct(result, 1, {","}, BreakTag(commaTime(pausing)))
             ELSE result

insertPausing(c, pausing) ==
    IF pausing <= 200 THEN c
    ELSE LET result == ReplacePunct(c, 1, {".", "?", "!"}, BreakTag(sentenceTime(pausing)))
         IN  IF pausing > 500
             THEN ReplacePunct(result, 1, {","}, BreakTag(commaTime(pausing)))
             ELSE result

----------------------------------------------------------------------------
(* Composition.                                                            *)

SpeakOpen == <<"<","s","p","e","a","k"," ","v","e","r","s","i","o","n","=","\"","1",".",
               "0","\""," ","x","m","l",":","l","a","n","g","=","\"">>
ProsodyOpen == <<"\"",">","\n"," "," ","<","p","r","o","s","o","d","y"," ","r","a","t",
                 "e","=","\"">>
PitchAttr == <<"\""," ","p","i","t","c","h","=","\"">>
VolumeAttr == <<"\""," ","v","o","l","u","m","e","=","\"">>
EmphasisOpen == <<"\"",">","\n"," "," "," "," ","<","e","m","p","h","a","s","i","s"," ",
                  "l","e","v","e","l","=","\"">>
EmphasisBody == <<"\"",">","\n"," "," "," "," "," "," ">>
EmphasisEnd == <<"\n"," "," "," "," ","<","/","e","m","p","h","a","s","i","s",">","\n",
                 " "," ","<","/","p","r","o","s","o","d","y",">","\n","<","/","s","p","e",
                 "a","k",">">>
ProsodyBody == <<"\"",">","\n"," "," "," "," ">>
ProsodyEnd == <<"\n"," "," ","<","/","p","r","o","s","o","d","y",">","\n","<","/","s",
                "p","e","a","k",">">>

(* The fallback document without its prosody element.                      *)
PlainDocumentNoProsody(rate, body, lang) ==
    SpeakOpen \o toLowerCase(lang) \o ProsodyBody \o body
        \o <<"\n", "<", "/", "s", "p", "e", "a", "k", ">">>

(* The fallback document of both variants.                                 *)
PlainDocument(rate, body, lang) ==
    SpeakOpen \o toLowerCase(lang) \o ProsodyOpen \o rate \o ProsodyBody \o body
        \o ProsodyEnd

(* generateSSML, first variant (lines 259-300).                            *)
generateSSML(c, ts, st, lang) ==
    LET phonemes == insertPhonemes(c, ts, st.vendor)
        processedContent == IF st.vendor = GOOGLE
                            THEN insertPausing(phonemes, st.pausing)
                            ELSE phonemes
        rate == getPacingRate(st.pacing)
        pitchVal == getPitchShift(st.pitch)
        volume == getAmbienceVolume(st.ambience)
        emphasisLevel == getExpressivenessLevel(st.expressiveness)
    IN  IF st.vendor = GOOGLE
        THEN SpeakOpen \o toLowerCase(lang) \o ProsodyOpen \o rate \o PitchAttr
                 \o pitchVal \o VolumeAttr \o volume \o EmphasisOpen \o emphasisLevel
                 \o EmphasisBody \o processedContent \o EmphasisEnd
        ELSE PlainDocument(rate, escapeXml(c), lang)

(* generateSSML, second variant (lines 427-460).                           *)
generateSSML2(c, ts, st, lang) ==
    LET processedContent == insertPhonemes(c, ts, st.vendor)
        rate == getPacingRate2(st.pacing)
        pitch == getPitchFromSolemnity(st.solemnity)
        emphasisLevel == getEmphasisLevel(st.emphasis)
    IN  IF st.vendor = GOOGLE
        THEN SpeakOpen \o toLowerCase(lang) \o ProsodyOpen \o rate \o PitchAttr
                 \o pitch \o EmphasisOpen \o emphasisLevel
                 \o EmphasisBody \o processedContent \o EmphasisEnd
        ELSE PlainDocument(rate, escapeXml(c), lang)

PreviewLimit == 500

(* The truncation with the ellipsis added from 500 characters on.          *)
TruncatedContentEager(c) ==
    SubSeq(c, 1, IF Len(c) < PreviewLimit THEN Len(c) ELSE PreviewLimit)
        \o (IF Len(c) >= PreviewLimit THEN <<".",".",".">> ELSE <<>>)

(* content.substring(0, 500) + (content.length > 500 ? '...' : '')         *)
truncatedContent(c) ==
    SubSeq(c, 1, IF Len(c) < PreviewLimit THEN Len(c) ELSE PreviewLimit)
        \o (IF Len(c) > PreviewLimit THEN <<".",".",".">> ELSE <<>>)

generateSSMLPreview(c, ts, st, lang) == generateSSML(truncatedContent(c), ts, st, lang)

generateSSMLPreview2(c, ts, st, lang) == generateSSML2(truncatedContent(c), ts, st, lang)

----------------------------------------------------------------------------
(* Capability and warnings.                                                *)

vendorSupportsSSML(vendor) == vendor = GOOGLE

LimitedSupport == "This vendor has limited SSML support."
PhonemesIgnored == "IPA phoneme tags will be ignored for this vendor."

(* getSSMLWarnings without the phoneme warning.                            *)
GetSSMLWarningsIgnoringIPA(vendor, ipa) ==
    IF ~vendorSupportsSSML(vendor) THEN <<LimitedSupport>> ELSE <<>>

getSSMLWarnings(vendor, ipa) ==
    IF ~vendorSupportsSSML(vendor)
    THEN <<LimitedSupport>> \o (IF ipa THEN <<PhonemesIgnored>> ELSE <<>>)
    ELSE <<>>

(* currentTerms.some(t => t.ipa) of the audio stage.                       *)
SomeTermHasIPA(ts) == \E i \in 1..Len(ts) : Truthy(ts[i].ipa)

----------------------------------------------------------------------------
(* Inputs.                                                                 *)

RECURSIVE StringsUpTo(_, _)
StringsUpTo(alphabet, n) ==
    IF n = 0 THEN {<<>>}
    ELSE LET shorter == StringsUpTo(alphabet, n - 1)
         IN  shorter \cup {Append(w, c) : w \in {v \in shorter : Len(v) = n - 1},
                                           c \in alphabet}

(* The settings of the audio stage's initial state (emphasis 0.85,         *)
(* solemnity 1.2, pacing 0.95) with the sliders of the first variant at    *)
(* their neutral positions.                                                *)
DefaultSettings ==
    [vendor |-> GOOGLE, ambience |-> 500, pitch |-> 1000, pacing |-> 950,
     expressiveness |-> 500, pausing |-> 0, emphasis |-> 850, solemnity |-> 1200]

En == <<"e","n">>

Term(text, ipa) == [text |-> text, ipa |-> ipa]

(* Glossary entries: a word, a phrase that ends in that word, a word of    *)
(* the inserted markup, an entry without transcription, the word in other  *)
(* case, an entry with empty text.                                         *)
TermA == Term(<<"a">>, <<"x">>)
TermBA == Term(<<"b"," ","a">>, <<"y">>)
TermPh == Term(<<"p","h">>, <<"z">>)
TermNoIpa == Term(<<"b">>, Undefined)
TermUpperA == Term(<<"A">>, <<"w">>)
TermEmpty == Term(<<>>, <<"v">>)
TermEmptyIpa == Term(<<"b">>, <<>>)

(* The example of the documentation: one sentence and its one term.        *)
TermTsitsernakaberd ==
    Term(<<"T","s","i","t","s","e","r","n","a","k","a","b","e","r","d">>,
         <<"t","s","i","t","s","e","r","n","a","k","a","b","e","r","t">>)

Welcome ==
    <<"W","e","l","c","o","m","e"," ","t","o"," ",
      "T","s","i","t","s","e","r","n","a","k","a","b","e","r","d",".">>

TermLists ==
    {<<>>, <<TermA>>, <<TermBA>>, <<TermA, TermBA>>, <<TermBA, TermA>>,
     <<TermBA, TermPh>>, <<TermNoIpa>>, <<TermA, TermNoIpa>>, <<TermA, TermUpperA>>,
     <<TermEmpty, TermA>>, <<TermTsitsernakaberd>>, <<TermEmptyIpa>>,
     <<TermEmpty>>}

MaxContentLen == 3

(* A text with the word in other case and the word inside a longer word.   *)
UpperAndInside == <<"A", " ", "a", "b">>

Contents ==
    StringsUpTo({"a", "A", "b", " "}, MaxContentLen) \cup {Welcome, UpperAndInside}

----------------------------------------------------------------------------
(* The calls.  Each behaviour is one call on inputs chosen at the start.   *)

inputs == <<content, terms, settings, language>>

GenerateSSML ==
    /\ op = "init"
    /\ op' = "generateSSML"
    /\ out' = generateSSML(content, terms, settings, language)
    /\ terms' = TermsArgument(terms)
    /\ UNCHANGED <<content, settings, language, hasIPA, warnings>>

GenerateSSML2 ==
    /\ op = "init"
    /\ op' = "generateSSML2"
    /\ out' = generateSSML2(content, terms, settings, language)
    /\ terms' = TermsArgument(terms)
    /\ UNCHANGED <<content, settings, language, hasIPA, warnings>>

GenerateSSMLPreview ==
    /\ op = "init"
    /\ op' = "generateSSMLPreview"
    /\ out' = generateSSMLPreview(content, terms, settings, language)
    /\ terms' = TermsArgument(terms)
    /\ UNCHANGED <<content, settings, language, hasIPA, warnings>>

GenerateSSMLPreview2 ==
    /\ op = "init"
    /\ op' = "generateSSMLPreview2"
    /\ out' = generateSSMLPreview2(content, terms, settings, language)
    /\ terms' = TermsArgument(terms)
    /\ UNCHANGED <<content, settings, language, hasIPA, warnings>>

InsertPhonemes ==
    /\ op = "init"
    /\ op' = "insertPhonemes"
    /\ out' = insertPhonemes(content, terms, settings.vendor)
    /\ terms' = TermsArgument(terms)
    /\ UNCHANGED <<content, settings, language, hasIPA, warnings>>

InsertPausing ==
    /\ op = "init"
    /\ op' = "insertPausing"
    /\ out' = insertPausing(content, settings.pausing)
    /\ UNCHANGED <<inputs, hasIPA, warnings>>

EscapeXml ==
    /\ op = "init"
    /\ op' = "escapeXml"
    /\ out' = escapeXml(content)
    /\ UNCHANGED <<inputs, hasIPA, warnings>>

GetPacingRate ==
    /\ op = "init"
    /\ op' = "getPacingRate"
    /\ out' = getPacingRate(settings.pacing)
    /\ UNCHANGED <<inputs, hasIPA, warnings>>

GetPacingRate2 ==
    /\ op = "init"
    /\ op' = "getPacingRate2"
    /\ out' = getPacingRate2(settings.pacing)
    /\ UNCHANGED <<inputs, hasIPA, warnings>>

GetExpressivenessLevel ==
    /\ op = "init"
    /\ op' = "getExpressivenessLevel"
    /\ out' = getExpressivenessLevel(settings.expressiveness)
    /\ UNCHANGED <<inputs, hasIPA, warnings>>

GetPitchShift ==
    /\ op = "init"
    /\ op' = "getPitchShift"
    /\ out' = getPitchShift(settings.pitch)
    /\ UNCHANGED <<inputs, hasIPA, warnings>>

GetAmbienceVolume ==
    /\ op = "init"
    /\ op' = "getAmbienceVolume"
    /\ out' = getAmbienceVolume(settings.ambience)
    /\ UNCHANGED <<inputs, hasIPA, warnings>>

GetEmphasisLevel ==
    /\ op = "init"
    /\ op' = "getEmphasisLevel"
    /\ out' = getEmphasisLevel(settings.emphasis)
    /\ UNCHANGED <<inputs, hasIPA, warnings>>

GetPitchFromSolemnity ==
    /\ op = "init"
    /\ op' = "getPitchFromSolemnity"
    /\ out' = getPitchFromSolemnity(settings.solemnity)
    /\ UNCHANGED <<inputs, hasIPA, warnings>>

(* getSSMLWarnings on any flag.                                            *)
GetSSMLWarnings ==
    /\ op = "init"
    /\ \E ipa \in BOOLEAN :
           /\ hasIPA' = ipa
           /\ warnings' = getSSMLWarnings(settings.vendor, ipa)
    /\ op' = "getSSMLWarnings"
    /\ UNCHANGED <<inputs, out>>

(* The ssmlWarnings memo of the audio stage: the flag computed from the    *)
(* current terms.                                                          *)
SsmlWarnings ==
    /\ op = "init"
    /\ hasIPA' = SomeTermHasIPA(terms)
    /\ warnings' = getSSMLWarnings(settings.vendor, hasIPA')
    /\ op' = "ssmlWarnings"
    /\ UNCHANGED <<inputs, out>>

InitCall ==
    /\ op = "init"
    /\ out = <<>>
    /\ hasIPA = FALSE
    /\ warnings = <<>>

(* Term matching and warnings: short texts over the glossary's letters,    *)
(* pauses off and on.                                                      *)
Init ==
    /\ InitCall
    /\ content \in Contents
    /\ terms \in TermLists
    /\ settings \in {[DefaultSettings EXCEPT !.vendor = v, !.pausing = p] :
                        v \in TTSVendor, p \in {0, 600}}
    /\ language = En

Next ==
    \/ GenerateSSML
    \/ GenerateSSML2
    \/ GenerateSSMLPreview
    \/ GenerateSSMLPreview2
    \/ InsertPhonemes
    \/ GetSSMLWarnings
    \/ SsmlWarnings

Spec == Init /\ [][Next]_vars

----------------------------------------------------------------------------
(* Escaping: texts over the reserved characters, and texts that spell the  *)
(* composer's own tags.                                                    *)

PhonemeTag == <<"<","p","h","o","n","e","m","e">>
EmphasisTag == <<"<","e","m","p","h","a","s","i","s">>
BreakTagName == <<"<","b","r","e","a","k">>

MarkupSamples == {PhonemeTag, EmphasisTag, BreakTagName}

(* A glossary entry whose transcription holds reserved characters.         *)
TermQuoted == Term(<<"a">>, <<"\"","<">>)

MaxEscapeLen == 3

EscapeContents ==
    StringsUpTo({"a", "&", "<", ">", "\"", "'"}, MaxEscapeLen) \cup MarkupSamples

InitEscape ==
    /\ InitCall
    /\ content \in EscapeContents
    /\ terms \in {<<>>, <<TermA>>, <<TermQuoted>>, <<TermA, TermQuoted>>}
    /\ settings \in {[DefaultSettings EXCEPT !.vendor = v] : v \in TTSVendor}
    /\ language = En

NextEscape ==
    \/ EscapeXml
    \/ InsertPhonemes
    \/ GenerateSSML
    \/ GenerateSSML2

SpecEscape == InitEscape /\ [][NextEscape]_vars

----------------------------------------------------------------------------
(* Pausing: texts with punctuation and white space, every pause intensity  *)
(* class.                                                                  *)

MaxPauseLen == 3

(* Glossary entries with a sentence end in the text and in the             *)
(* transcription.                                                          *)
StPetersburg == <<"S","t","."," ","P","e","t","e","r","s","b","u","r","g">>
TermStPetersburg == Term(StPetersburg, <<"s","p","b">>)
TermDottedIpa == Term(<<"a">>, <<"x", ".", " ", "y">>)

PauseContents ==
    StringsUpTo({"a", ".", "?", ",", " ", "\n"}, MaxPauseLen)
        \cup {BreakTagName, StPetersburg}

PausingValues == {0, 100, 200, 300, 400, 500, 600, 800, 1000}

InitPause ==
    /\ InitCall
    /\ content \in PauseContents
    /\ terms \in {<<>>, <<TermA>>, <<TermDottedIpa>>, <<TermStPetersburg>>}
    /\ settings \in {[DefaultSettings EXCEPT !.vendor = v, !.pausing = p] :
                        v \in {GOOGLE, OPENAI}, p \in PausingValues}
    /\ language = En

NextPause ==
    \/ InsertPausing
    \/ GenerateSSML

SpecPause == InitPause /\ [][NextPause]_vars

----------------------------------------------------------------------------
(* Parameter mapping: the pacing multipliers 0.50, 0.51, ..., 2.00, the    *)
(* emphasis and solemnity values of a slider with step 0.05 on [0, 2], and *)
(* the values of the first variant's settings in steps of 0.025.           *)

PacingGrid == {p \in 500..2000 : p % 10 = 0}
EmphasisGrid == {e \in 0..2000 : e % 50 = 0}
SolemnityGrid == {s \in 0..2000 : s % 50 = 0}
AmbienceGrid == {a \in 0..1000 : a % 25 = 0}
PitchGrid == {p \in 500..1500 : p % 25 = 0}
ExpressivenessGrid == {e \in 0..1000 : e % 25 = 0}

ParamSettings ==
    {[DefaultSettings EXCEPT !.pacing = p] : p \in PacingGrid}
        \cup {[DefaultSettings EXCEPT !.emphasis = e] : e \in EmphasisGrid}
        \cup {[DefaultSettings EXCEPT !.solemnity = s] : s \in SolemnityGrid}
        \cup {[DefaultSettings EXCEPT !.ambience = a] : a \in AmbienceGrid}
        \cup {[DefaultSettings EXCEPT !.pitch = p] : p \in PitchGrid}
        \cup {[DefaultSettings EXCEPT !.expressiveness = e] : e \in ExpressivenessGrid}

InitParams ==
    /\ InitCall
    /\ content = <<>>
    /\ terms = <<>>
    /\ settings \in ParamSettings
    /\ language = En

NextParams ==
    \/ GetPacingRate
    \/ GetPacingRate2
    \/ GetExpressivenessLevel
    \/ GetPitchShift
    \/ GetAmbienceVolume
    \/ GetEmphasisLevel
    \/ GetPitchFromSolemnity

SpecParams == InitParams /\ [][NextParams]_vars

----------------------------------------------------------------------------
(* Composition: a few texts, two settings that differ in every number,     *)
(* language tags in several cases.                                         *)

OtherSettings ==
    [vendor |-> GOOGLE, ambience |-> 1000, pitch |-> 1500, pacing |-> 1500,
     expressiveness |-> 1000, pausing |-> 600, emphasis |-> 1500, solemnity |-> 0]

MaxComposeLen == 2

ComposeContents ==
    StringsUpTo({"a", "&", "<", "\"", "'"}, MaxComposeLen)
        \cup {<<"a", ".", " ", "a">>, <<"<", "a", ">">>, <<"&", "a", "m", "p", ";">>}

Languages == {En, <<"E", "N", "-", "U", "S">>, <<"h", "y", "-", "A", "M">>}

InitCompose ==
    /\ InitCall
    /\ content \in ComposeContents
    /\ terms \in {<<>>, <<TermA>>, <<TermPh>>}
    /\ settings \in {[st EXCEPT !.vendor = v] :
                        st \in {DefaultSettings, OtherSettings}, v \in TTSVendor}
    /\ language \in Languages

NextCompose ==
    \/ GenerateSSML
    \/ GenerateSSML2

SpecCompose == InitCompose /\ [][NextCompose]_vars

----------------------------------------------------------------------------
(* Numbers outside the documented ranges: each setting in turn below its   *)
(* range, at its two ends, and above it.                                   *)

RangeSettings ==
    {[DefaultSettings EXCEPT !.pacing = p] : p \in {250, 500, 1500, 2000, 2500}}
        \cup {[DefaultSettings EXCEPT !.emphasis = e] : e \in {0 - 500, 0, 2000, 2500}}
        \cup {[DefaultSettings EXCEPT !.solemnity = x] : x \in {0 - 500, 0, 2000, 2500}}
        \cup {[DefaultSettings EXCEPT !.ambience = a] : a \in {0 - 500, 0, 1000, 1500}}
        \cup {[DefaultSettings EXCEPT !.pitch = p] : p \in {250, 500, 1500, 2000}}
        \cup {[DefaultSettings EXCEPT !.expressiveness = e] :
                   e \in {0 - 500, 0, 1000, 1500}}
        \cup {[DefaultSettings EXCEPT !.pausing = p] : p \in {0 - 500, 0, 1000, 1500}}

RangeContents == {<<>>, <<"a", ".", " ", "a">>, <<"a", ",", " ", "a">>}

InitRange ==
    /\ InitCall
    /\ content \in RangeContents
    /\ terms = <<>>
    /\ settings \in RangeSettings
    /\ language = En

NextRange ==
    \/ GetPacingRate
    \/ GetPacingRate2
    \/ GetExpressivenessLevel
    \/ GetPitchShift
    \/ GetAmbienceVolume
    \/ GetEmphasisLevel
    \/ GetPitchFromSolemnity
    \/ InsertPausing

SpecRange == InitRange /\ [][NextRange]_vars

----------------------------------------------------------------------------
(* Preview: texts whose length is about the preview limit.                 *)

MaxTailLen == 3

Filler(n) == [i \in 1..n |-> "x"]

PreviewContents ==
    {Filler(n) \o tail : n \in (PreviewLimit - 2)..PreviewLimit,
                         tail \in StringsUpTo({"a", " ", "."}, MaxTailLen)}

InitPreview ==
    /\ InitCall
    /\ content \in PreviewContents
    /\ terms \in {<<>>, <<TermA>>}
    /\ settings \in {[DefaultSettings EXCEPT !.vendor = v, !.pausing = 600] :
                        v \in {GOOGLE, OPENAI}}
    /\ language = En

NextPreview ==
    \/ GenerateSSMLPreview
    \/ GenerateSSMLPreview2

SpecPreview == InitPreview /\ [][NextPreview]_vars

----------------------------------------------------------------------------
(* Properties.                                                             *)

IsGenerate == op \in {"generateSSML", "generateSSML2"}
OnGoogle == settings.vendor = GOOGLE

StartsAt(s, i, prefix) ==
    /\ i + Len(prefix) - 1 <= Len(s)
    /\ SubSeq(s, i, i + Len(prefix) - 1) = prefix

(* The occurrences of a term in a text that one left-to-right pass finds.  *)
RECURSIVE ScanMatches(_, _, _)
ScanMatches(s, start, toks) ==
    LET hits == {i \in start..Len(s) : MatchAt(s, i, toks)}
    IN  IF hits = {} THEN {}
        ELSE {Min(hits)} \cup ScanMatches(s, Min(hits) + Len(toks), toks)

TermMatches(s, term) == ScanMatches(s, 1, Compile(escapeRegExp(term.text)))

HasTranscription(term) == Truthy(term.ipa) /\ Truthy(term.text)

(* The number of phoneme elements open at position k of s.                 *)
PhonemeDepth(s, k) ==
    Cardinality({i \in Occurrences(s, PhonemeTag) : i <= k})
        - Cardinality({i \in Occurrences(s, PhonemeClose) : i <= k})

NoNestedPhoneme(s) == \A k \in 1..Len(s) : PhonemeDepth(s, k) <= 1

(* a's text is a whole-word part of b's longer text.                       *)
WholeWordPart(a, b) ==
    /\ Len(a.text) < Len(b.text)
    /\ TermMatches(b.text, a) # {}

NestedPair(a, b) == HasTranscription(a) /\ HasTranscription(b) /\ WholeWordPart(a, b)

(* C1: longest-match precedence.  For Google, when two terms with          *)
(* transcriptions are such that one's text is a whole-word part of the     *)
(* other's, every occurrence of the longer one in the content yields one   *)
(* phoneme span covering it as a whole, and no phoneme element is nested   *)
(* in another.                                                             *)
C1_LongestMatch ==
    (/\ IsGenerate
     /\ OnGoogle
     /\ \E i, j \in 1..Len(terms) : NestedPair(terms[i], terms[j]))
    => /\ NoNestedPhoneme(out)
       /\ \A i, j \in 1..Len(terms) :
              NestedPair(terms[i], terms[j])
              => Cardinality(Occurrences(out, PhonemeSpan(terms[j])))
                     = Cardinality(TermMatches(content, terms[j]))

(* The opening tag insertPhonemes writes for a term.                       *)
OpeningTag(term) == PhonemeOpen \o term.ipa \o <<"\"", ">">>

(* C2: no re-matching of substituted text.  For Google, each phoneme tag   *)
(* of the output was produced by a match against the original content: a   *)
(* term's opening tag occurs no more often than the term occurs in the     *)
(* content.                                                                *)
C2_NoRematch ==
    (IsGenerate /\ OnGoogle) =>
        \A i \in 1..Len(terms) :
            HasTranscription(terms[i])
            => Cardinality(Occurrences(out, OpeningTag(terms[i])))
                   <= Cardinality(TermMatches(content, terms[i]))

Entities ==
    {<<"&","a","m","p",";">>, <<"&","l","t",";">>, <<"&","g","t",";">>,
     <<"&","q","u","o","t",";">>, <<"&","a","p","o","s",";">>}

EntityAt(s, i) == \E e \in Entities : StartsAt(s, i, e)

(* The beginnings of the tags the composer writes.                         *)
ComposerTags ==
    {<<"<","s","p","e","a","k"," ">>, <<"<","/","s","p","e","a","k",">">>,
     <<"<","p","r","o","s","o","d","y"," ">>, <<"<","/","p","r","o","s","o","d","y",">">>,
     <<"<","e","m","p","h","a","s","i","s"," ">>,
     <<"<","/","e","m","p","h","a","s","i","s",">">>,
     PhonemeOpen, PhonemeClose,
     <<"<","b","r","e","a","k"," ","t","i","m","e","=","\"">>}

ComposerTagAt(s, i) == \E t \in ComposerTags : StartsAt(s, i, t)

(* C3: escaping for Google.  In the generateSSML output every '<' begins a *)
(* tag the composer wrote and every '&' begins an entity: no reserved      *)
(* character of the content, a term text or a transcription is left raw.   *)
C3_GoogleEscaped ==
    (IsGenerate /\ OnGoogle) =>
        \A i \in 1..Len(out) :
            /\ out[i] = "<" => ComposerTagAt(out, i)
            /\ out[i] = "&" => EntityAt(out, i)

(* C4: vendor degradation.  For ElevenLabs and OpenAI the generateSSML     *)
(* output contains none of <phoneme, <emphasis, <break, whatever the       *)
(* content, the terms and the settings.                                    *)
C4_VendorDegradation ==
    (IsGenerate /\ ~OnGoogle) =>
        /\ ~Contains(out, PhonemeTag)
        /\ ~Contains(out, EmphasisTag)
        /\ ~Contains(out, BreakTagName)

C4_Witness ==
    /\ IsGenerate
    /\ ~OnGoogle
    /\ content = BreakTagName
    /\ SomeTermHasIPA(terms)

(* C5: getSSMLWarnings returns no warning for a vendor with markup         *)
(* support, the limited-support warning alone for a vendor without it when *)
(* hasIPA is false, and that warning followed by the phoneme warning when  *)
(* hasIPA is true; the list is not empty when the vendor lacks markup      *)
(* support and a term has a transcription.                                 *)
C5_Warnings ==
    /\ op \in {"getSSMLWarnings", "ssmlWarnings"} =>
           warnings = IF settings.vendor = GOOGLE THEN <<>>
                      ELSE IF hasIPA THEN <<LimitedSupport, PhonemesIgnored>>
                      ELSE <<LimitedSupport>>
    /\ (/\ op = "ssmlWarnings"
        /\ settings.vendor # GOOGLE
        /\ \E i \in 1..Len(terms) : Truthy(terms[i].ipa))
       => (hasIPA /\ warnings # <<>>)

C5_Witness ==
    /\ op = "ssmlWarnings"
    /\ settings.vendor = ELEVENLABS
    /\ terms = <<TermA, TermNoIpa>>
    /\ warnings = <<LimitedSupport, PhonemesIgnored>>

(* C6: escapeXml leaves no '<', '>', '"' or "'" in its output, and every   *)
(* '&' of the output begins one of the five entities.                      *)
C6_EscapeXml ==
    op = "escapeXml" =>
        \A i \in 1..Len(out) :
            /\ out[i] \notin {"<", ">", "\"", "'"}
            /\ out[i] = "&" => EntityAt(out, i)

C6_Witness ==
    /\ op = "escapeXml"
    /\ content = <<"&", "<", "'">>
    /\ out = <<"&","a","m","p",";", "&","l","t",";", "&","a","p","o","s",";">>

(* C7: no-op pausing below the threshold.  insertPausing returns the text  *)
(* unchanged for every intensity <= 0.2, and the Google output of          *)
(* generateSSML with such an intensity contains no <break element.         *)
C7_NoPausingBelowThreshold ==
    /\ (op = "insertPausing" /\ settings.pausing <= 200) => out = content
    /\ (op = "generateSSML" /\ OnGoogle /\ settings.pausing <= 200)
       => ~Contains(out, BreakTagName)

(* parseInt of a rate string: the number before the '%'.                   *)
RECURSIVE StrToNat(_)
StrToNat(ds) ==
    IF ds = <<>> THEN 0
    ELSE 10 * StrToNat(SubSeq(ds, 1, Len(ds) - 1))
             + (CHOOSE i \in 1..10 : Digits[i] = ds[Len(ds)]) - 1

ParsePercent(rate) == StrToNat(SubSeq(rate, 1, Len(rate) - 1))

IsPacingRate == op \in {"getPacingRate", "getPacingRate2"}

RateOf(name, pacing) ==
    IF name = "getPacingRate" THEN getPacingRate(pacing) ELSE getPacingRate2(pacing)

(* C8: pacing mapping.  For every multiplier in [0.5, 2.0] the rate is     *)
(* round(multiplier * 100) followed by '%'.                                *)
C8_PacingRate ==
    IsPacingRate =>
        out = NumToStr(MathRound(settings.pacing * 100, 1000)) \o <<"%">>

(* C9: monotonic pacing.  On the grid of hundredths of [0.5, 2.0], a       *)
(* smaller multiplier gives a strictly smaller percentage.                 *)
C9_PacingMonotonic ==
    IsPacingRate =>
        \A m1 \in PacingGrid :
            m1 < settings.pacing
            => ParsePercent(RateOf(op, m1)) < ParsePercent(out)

(* The content the preview is claimed to run on.                           *)
FirstCharacters(c) ==
    IF Len(c) > 500 THEN [i \in 1..500 |-> c[i]] \o <<".", ".", ".">> ELSE c

(* c with every character after the first 500 replaced.                    *)
MaskedTail(c) == [i \in 1..Len(c) |-> IF i <= 500 THEN c[i] ELSE "x"]

(* C10: preview truncation.  generateSSMLPreview(content) is generateSSML  *)
(* of the first 500 characters followed by "..." when the content is       *)
(* longer than 500 characters, and of the content itself otherwise; the    *)
(* characters after the first 500 do not influence it.                     *)
C10_PreviewTruncation ==
    /\ op = "generateSSMLPreview" =>
           /\ out = generateSSML(FirstCharacters(content), terms, settings, language)
           /\ out = generateSSMLPreview(MaskedTail(content), terms, settings, language)
    /\ op = "generateSSMLPreview2" =>
           /\ out = generateSSML2(FirstCharacters(content), terms, settings, language)
           /\ out = generateSSMLPreview2(MaskedTail(content), terms, settings, language)

C10_Witness ==
    /\ op = "generateSSMLPreview"
    /\ OnGoogle
    /\ terms = <<TermA>>
    /\ Len(content) = 503
    /\ SubSeq(content, 499, 503) = <<"x", "x", " ", "a", " ">>
    /\ ~Contains(out, PhonemeTag)

(* The text inside the emphasis element of a Google document.              *)
GoogleBody(o) ==
    LET first == Min(Occurrences(o, EmphasisBody)) + Len(EmphasisBody)
    IN  SubSeq(o, first, Len(o) - Len(EmphasisEnd))

(* C11: the documented example.  For "Welcome to Tsitsernakaberd." with    *)
(* the one term "Tsitsernakaberd", Google, pacing 0.95 and language "en",  *)
(* the document opens with a speak element declaring xml:lang="en" and a   *)
(* prosody element whose rate is "95%", and its content is "Welcome to ",  *)
(* one phoneme element with the term's transcription around the term, and  *)
(* the final '.'.                                                          *)
C11_Example ==
    (/\ IsGenerate
     /\ OnGoogle
     /\ content = Welcome
     /\ terms = <<TermTsitsernakaberd>>
     /\ settings.pacing = 950
     /\ language = En)
    => /\ StartsAt(out, 1, SpeakOpen \o En \o ProsodyOpen \o <<"9","5","%","\"">>)
       /\ Cardinality(Occurrences(out, PhonemeTag)) = 1
       /\ GoogleBody(out) = <<"W","e","l","c","o","m","e"," ","t","o"," ">>
                                \o PhonemeSpan(TermTsitsernakaberd) \o <<".">>

(* text is written at position i of s, in whatever case, with a word       *)
(* character on exactly one side of its first and of its last boundary.    *)
WholeWordAt(s, i, text) ==
    LET j == i + Len(text) - 1
        W(k) == k \in 1..Len(s) /\ IsWordChar(s[k])
    IN  /\ j <= Len(s)
        /\ toLowerCase(SubSeq(s, i, j)) = toLowerCase(text)
        /\ W(i - 1) # W(i)
        /\ W(j) # W(j + 1)

(* s with each such occurrence of the term replaced by the term's span.    *)
Wrapped(s, term) ==
    Flatten([i \in 1..Len(s) |->
        IF WholeWordAt(s, i, term.text) THEN PhonemeSpan(term)
        ELSE IF \E k \in 1..(i - 1) :
                    WholeWordAt(s, k, term.text) /\ i < k + Len(term.text)
             THEN <<>>
        ELSE <<s[i]>>])

Transcribed(ts) == {i \in 1..Len(ts) : HasTranscription(ts[i])}

(* C12: whole-word, case-insensitive matching.  For Google and a list in   *)
(* which one term has a transcription, the content comes back with exactly *)
(* the occurrences of the term's text wrapped that match it ignoring case  *)
(* and have a word boundary on both sides: the text inside a longer word   *)
(* is left alone, the text in other case is wrapped.                       *)
C12_WholeWord ==
    (OnGoogle /\ Cardinality(Transcribed(terms)) = 1) =>
        LET term == terms[CHOOSE i \in Transcribed(terms) : TRUE]
        IN  /\ op = "insertPhonemes" => out = Wrapped(content, term)
            /\ IsGenerate => GoogleBody(out) = Wrapped(content, term)

C12_Witness ==
    /\ op = "insertPhonemes"
    /\ OnGoogle
    /\ terms = <<TermA>>
    /\ content = UpperAndInside
    /\ out = PhonemeSpan(TermA) \o <<" ", "a", "b">>

(* The positions of the content that lie in an occurrence of a term the    *)
(* matcher recognizes: a term with a transcription, for Google.            *)
Recognized(c, ts, vendor) ==
    IF vendor # GOOGLE THEN {}
    ELSE {q \in 1..Len(c) :
             \E i \in Transcribed(ts) : \E k \in 1..q :
                 WholeWordAt(c, k, ts[i].text) /\ q < k + Len(ts[i].text)}

(* c cut into its maximal runs inside and outside the set occ.             *)
RECURSIVE Segments(_, _, _)
Segments(c, i, occ) ==
    IF i > Len(c) THEN <<>>
    ELSE LET j == CHOOSE j \in i..Len(c) :
                      /\ \A k \in i..j : (k \in occ) = (i \in occ)
                      /\ j = Len(c) \/ ((j + 1 \in occ) # (i \in occ))
         IN  <<[inside |-> i \in occ, text |-> SubSeq(c, i, j)]>>
                 \o Segments(c, j + 1, occ)

(* o from position pos on is the segments in order: a run outside the      *)
(* occurrences as it was written (as escapeXml writes it when escaped), a  *)
(* run of occurrences as phoneme markup.                                   *)
RECURSIVE Framed(_, _, _, _)
Framed(o, pos, segs, escaped) ==
    IF segs = <<>> THEN pos = Len(o) + 1
    ELSE IF segs[1].inside
         THEN /\ StartsAt(o, pos, PhonemeTag)
              /\ \E e \in (pos + Len(PhonemeClose))..Len(o) :
                     /\ StartsAt(o, e - Len(PhonemeClose) + 1, PhonemeClose)
                     /\ Framed(o, e + 1, Tail(segs), escaped)
    ELSE LET kept == IF escaped THEN escapeXml(segs[1].text) ELSE segs[1].text
         IN  /\ StartsAt(o, pos, kept)
             /\ Framed(o, pos + Len(kept), Tail(segs), escaped)

(* C13 as stated: the text insertPhonemes returns is the content with      *)
(* phoneme markup in the place of the recognized occurrences and every     *)
(* other character as it was written, in order.                            *)
C13_FrameAsStated ==
    op = "insertPhonemes" =>
        Framed(out, 1, Segments(content, 1, Recognized(content, terms, settings.vendor)),
               FALSE)

(* C13: the term matcher's frame.  The text insertPhonemes returns is the  *)
(* content with phoneme markup in the place of the recognized occurrences  *)
(* and every other character in its place and order, written as it was for *)
(* Google with a non-empty term list and as escapeXml writes it for an     *)
(* empty term list or another vendor.                                      *)
C13_Frame ==
    op = "insertPhonemes" =>
        Framed(out, 1, Segments(content, 1, Recognized(content, terms, settings.vendor)),
               ~(OnGoogle /\ terms # <<>>))

C13_Witness ==
    /\ op = "insertPhonemes"
    /\ OnGoogle
    /\ terms = <<TermA>>
    /\ content = <<"a", "&", "a">>
    /\ out = PhonemeSpan(TermA) \o <<"&">> \o PhonemeSpan(TermA)

(* The number a string with a sign and a unit stands for.                  *)
SignedValue(str, unit) ==
    LET body == SubSeq(str, 1, Len(str) - Len(unit))
    IN  IF body[1] = "+" THEN StrToNat(Tail(body))
        ELSE IF body[1] = "-" THEN 0 - StrToNat(Tail(body))
        ELSE StrToNat(body)

EndsWith(str, unit) == StartsAt(str, Len(str) - Len(unit) + 1, unit)

PitchPercent(solemnity) == SignedValue(getPitchFromSolemnity(solemnity), <<"%">>)

(* C14: solemnity mapping.  On the slider's values of [0, 2] the pitch is  *)
(* a percentage that is linear in the solemnity, 20 * (1 - solemnity), is  *)
(* zero at 1.0, does not rise when the solemnity rises, and is positive at *)
(* 0 and negative at 2.                                                    *)
C14_SolemnityPitch ==
    op = "getPitchFromSolemnity" =>
        LET shift == SignedValue(out, <<"%">>)
        IN  /\ EndsWith(out, <<"%">>)
            /\ shift * 1000 = 20 * (1000 - settings.solemnity)
            /\ settings.solemnity = 1000 => shift = 0
            /\ \A s1 \in SolemnityGrid :
                   s1 < settings.solemnity => PitchPercent(s1) >= shift
            /\ PitchPercent(0) > PitchPercent(1000)
            /\ PitchPercent(1000) > PitchPercent(2000)

C14_Witness ==
    /\ op = "getPitchFromSolemnity"
    /\ settings.solemnity = 2000
    /\ out = <<"-", "2", "0", "%">>

(* The order of the emphasis levels.                                       *)
LevelRank(level) ==
    CASE level = <<"r","e","d","u","c","e","d">> -> 1
      [] level = <<"n","o","n","e">> -> 2
      [] level = <<"m","o","d","e","r","a","t","e">> -> 3
      [] level = <<"s","t","r","o","n","g">> -> 4

(* C15: emphasis mapping.  For every emphasis strength of [0, 2] the level *)
(* is 'reduced' below 0.5, 'none' from 0.5 to below 1.0, 'moderate' from   *)
(* 1.0 to below 1.5 and 'strong' from 1.5 on, and a smaller strength never *)
(* gives a higher level in the order reduced < none < moderate < strong.   *)
C15_EmphasisLevel ==
    op = "getEmphasisLevel" =>
        LET e == settings.emphasis
        IN  /\ e < 500 => out = <<"r","e","d","u","c","e","d">>
            /\ (500 <= e /\ e < 1000) => out = <<"n","o","n","e">>
            /\ (1000 <= e /\ e < 1500) => out = <<"m","o","d","e","r","a","t","e">>
            /\ 1500 <= e => out = <<"s","t","r","o","n","g">>
            /\ \A e1 \in EmphasisGrid :
                   e1 <= e => LevelRank(getEmphasisLevel(e1)) <= LevelRank(out)

C15_Witness ==
    /\ op = "getEmphasisLevel"
    /\ settings.emphasis = 950
    /\ out = <<"n","o","n","e">>

(* C16 as stated: a strength equal to a threshold gets the level of the    *)
(* bucket below it: 0.5 'reduced', 1.0 'none', 1.5 'moderate'.             *)
C16_BoundaryBelow ==
    op = "getEmphasisLevel" =>
        /\ settings.emphasis = 500 => out = <<"r","e","d","u","c","e","d">>
        /\ settings.emphasis = 1000 => out = <<"n","o","n","e">>
        /\ settings.emphasis = 1500 => out = <<"m","o","d","e","r","a","t","e">>

(* C16: a strength equal to a threshold gets the level of the bucket that  *)
(* begins at it, 0.5 'none', 1.0 'moderate', 1.5 'strong', which is not    *)
(* the level of the slider's value just below the threshold.               *)
C16_BoundaryAbove ==
    op = "getEmphasisLevel" =>
        /\ settings.emphasis = 500 => out = <<"n","o","n","e">>
        /\ settings.emphasis = 1000 => out = <<"m","o","d","e","r","a","t","e">>
        /\ settings.emphasis = 1500 => out = <<"s","t","r","o","n","g">>
        /\ settings.emphasis \in {500, 1000, 1500}
           => out # getEmphasisLevel(settings.emphasis - 50)

C16_Witness ==
    /\ op = "getEmphasisLevel"
    /\ settings.emphasis = 500
    /\ out = <<"n","o","n","e">>

Decibels(ambience) == SignedValue(getAmbienceVolume(ambience), <<"d","B">>)

(* C17: ambience symmetry.  getAmbienceVolume(0.5) is "0dB", the decibels  *)
(* for 0.5 + d are the negation of the decibels for 0.5 - d, a positive    *)
(* value is written with '+', and every value ends in "dB".                *)
C17_AmbienceSymmetric ==
    op = "getAmbienceVolume" =>
        /\ settings.ambience = 500 => out = <<"0", "d", "B">>
        /\ SignedValue(out, <<"d","B">>) = 0 - Decibels(1000 - settings.ambience)
        /\ SignedValue(out, <<"d","B">>) > 0 => out[1] = "+"
        /\ EndsWith(out, <<"d","B">>)

ProsodyTag == <<"<","p","r","o","s","o","d","y"," ">>

(* Position i of o lies in a tag: after a '<' that no '>' has closed.      *)
InTag(o, i) ==
    \E a \in 1..i : o[a] = "<" /\ \A b \in a..(i - 1) : o[b] # ">"

(* C18: totality on empty content.  For every vendor and every term list,  *)
(* generateSSML of the empty content is the vendor's envelope: a speak     *)
(* element with version and xml:lang, a prosody element and, for Google,   *)
(* an emphasis element, with nothing but white space between the tags and  *)
(* no phoneme or break element.                                            *)
C18_EmptyContent ==
    (IsGenerate /\ content = <<>>) =>
        /\ StartsAt(out, 1, SpeakOpen \o En \o <<"\"", ">">>)
        /\ EndsWith(out, <<"<", "/", "s", "p", "e", "a", "k", ">">>)
        /\ Cardinality(Occurrences(out, ProsodyTag)) = 1
        /\ Cardinality(Occurrences(out, EmphasisTag)) = IF OnGoogle THEN 1 ELSE 0
        /\ \A i \in 1..Len(out) : ~InTag(out, i) => out[i] \in {" ", "\n"}
        /\ ~Contains(out, PhonemeTag)
        /\ ~Contains(out, BreakTagName)

C18_Witness ==
    /\ op = "generateSSML"
    /\ content = <<>>
    /\ terms = <<TermEmpty, TermA>>
    /\ settings.vendor = ELEVENLABS
    /\ settings.pausing = 600
    /\ Contains(out, ProsodyTag)

(* C19: no pause inside an override span.  In the Google output of         *)
(* generateSSML with a pause intensity above 0.2, no <break stands between *)
(* a <phoneme and its </phoneme>, neither in the ph attribute nor in the   *)
(* wrapped text.                                                           *)
C19_NoBreakInSpan ==
    (op = "generateSSML" /\ OnGoogle /\ settings.pausing > 200) =>
        \A k \in Occurrences(out, BreakTagName) : PhonemeDepth(out, k) = 0

BreakTime == <<"<","b","r","e","a","k"," ","t","i","m","e","=","\"">>

(* n is x thousandths rounded to the nearest integer, halves upwards.      *)
Rounds(n, x) == 1000 * n <= x + 500 /\ x + 500 < 1000 * (n + 1)

(* The punctuation of c that white space follows.                          *)
FollowedBySpace(c, puncts) ==
    {i \in 1..(Len(c) - 1) : c[i] \in puncts /\ IsSpace(c[i + 1])}

RECURSIVE RemoveAll(_, _)
RemoveAll(o, pat) ==
    IF Occurrences(o, pat) = {} THEN o
    ELSE LET i == Min(Occurrences(o, pat))
         IN  SubSeq(o, 1, i - 1) \o RemoveAll(From(o, i + Len(pat)), pat)

(* o without the break directives of intensity p, and o without them and   *)
(* the one space written in front of each.                                 *)
WithoutBreaks(o, p) ==
    RemoveAll(RemoveAll(o, BreakTag(sentenceTime(p))), BreakTag(commaTime(p)))

WithoutBreaksAndSpace(o, p) ==
    RemoveAll(RemoveAll(o, <<" ">> \o BreakTag(sentenceTime(p))),
              <<" ">> \o BreakTag(commaTime(p)))

(* C21: pause insertion only adds directives.  For an intensity above 0.2, *)
(* deleting the break directives from what insertPausing returns gives the *)
(* input back, punctuation and white space runs as they were, and a run of *)
(* punctuation marks followed by white space gets one break.               *)
C21_OnlyAddsBreaks ==
    (op = "insertPausing" /\ settings.pausing > 200) =>
        /\ \/ WithoutBreaks(out, settings.pausing) = content
           \/ WithoutBreaksAndSpace(out, settings.pausing) = content
        /\ \A i \in 1..(Len(content) - 2) :
               (/\ content[i] \in {".", "?", "!"}
                /\ content[i + 1] \in {".", "?", "!"}
                /\ IsSpace(content[i + 2]))
               => LET break == BreakTag(sentenceTime(settings.pausing))
                  IN  /\ Contains(out, <<content[i], content[i + 1], " ">> \o break)
                      /\ ~Contains(out, <<content[i], " ">> \o break
                                            \o <<" ", content[i + 1]>>)

(* The settings of a call mapped by the functions of the variant called.   *)
RateOfCall ==
    IF op = "generateSSML" THEN getPacingRate(settings.pacing)
    ELSE getPacingRate2(settings.pacing)

PitchOfCall ==
    IF op = "generateSSML" THEN getPitchShift(settings.pitch)
    ELSE getPitchFromSolemnity(settings.solemnity)

LevelOfCall ==
    IF op = "generateSSML" THEN getExpressivenessLevel(settings.expressiveness)
    ELSE getEmphasisLevel(settings.emphasis)

(* C22: full-markup composition.  For Google the document is a speak       *)
(* element with version "1.0" and the language in lower case, holding one  *)
(* prosody element with the mapped rate, pitch and volume, holding one     *)
(* emphasis element with the mapped level, holding the content with its    *)
(* phoneme spans and its pauses.                                           *)
C22_FullMarkup ==
    (IsGenerate /\ OnGoogle) =>
        out = <<"<","s","p","e","a","k"," ","v","e","r","s","i","o","n","=","\"","1",
                ".","0","\""," ","x","m","l",":","l","a","n","g","=","\"">>
              \o toLowerCase(language)
              \o <<"\"",">","\n"," "," ","<","p","r","o","s","o","d","y"," ","r","a",
                   "t","e","=","\"">>
              \o RateOfCall
              \o <<"\""," ","p","i","t","c","h","=","\"">>
              \o PitchOfCall
              \o <<"\""," ","v","o","l","u","m","e","=","\"">>
              \o getAmbienceVolume(settings.ambience)
              \o <<"\"",">","\n"," "," "," "," ","<","e","m","p","h","a","s","i","s",
                   " ","l","e","v","e","l","=","\"">>
              \o LevelOfCall
              \o <<"\"",">","\n"," "," "," "," "," "," ">>
              \o insertPausing(insertPhonemes(content, terms, GOOGLE), settings.pausing)
              \o <<"\n"," "," "," "," ","<","/","e","m","p","h","a","s","i","s",">",
                   "\n"," "," ","<","/","p","r","o","s","o","d","y",">","\n",
                   "<","/","s","p","e","a","k",">">>

(* c with each reserved character replaced by its entity, once.            *)
EscapedOnce(c) ==
    Flatten([i \in 1..Len(c) |->
        CASE c[i] = "&" -> <<"&","a","m","p",";">>
          [] c[i] = "<" -> <<"&","l","t",";">>
          [] c[i] = ">" -> <<"&","g","t",";">>
          [] c[i] = "\"" -> <<"&","q","u","o","t",";">>
          [] c[i] = "'" -> <<"&","a","p","o","s",";">>
          [] OTHER -> <<c[i]>>])

(* C23: plain-text degradation.  For ElevenLabs and OpenAI the document is *)
(* the speak element with version and language holding one prosody element *)
(* with the mapped rate holding the content escaped once; it is a function *)
(* of content, pacing and language alone: the same for the two vendors,    *)
(* for every term list and for every other setting.                        *)
C23_PlainDegradation ==
    (IsGenerate /\ ~OnGoogle) =>
        /\ out = <<"<","s","p","e","a","k"," ","v","e","r","s","i","o","n","=","\"",
                   "1",".","0","\""," ","x","m","l",":","l","a","n","g","=","\"">>
                 \o toLowerCase(language)
                 \o <<"\"",">","\n"," "," ","<","p","r","o","s","o","d","y"," ","r",
                      "a","t","e","=","\"">>
                 \o RateOfCall
                 \o <<"\"",">","\n"," "," "," "," ">>
                 \o EscapedOnce(content)
                 \o <<"\n"," "," ","<","/","p","r","o","s","o","d","y",">","\n",
                      "<","/","s","p","e","a","k",">">>
        /\ \A v \in {ELEVENLABS, OPENAI} : \A st \in {DefaultSettings, OtherSettings} :
               LET other == [st EXCEPT !.vendor = v, !.pacing = settings.pacing]
               IN  out = IF op = "generateSSML"
                         THEN generateSSML(content, <<>>, other, language)
                         ELSE generateSSML2(content, <<>>, other, language)

C23_Witness ==
    /\ op = "generateSSML"
    /\ settings = [OtherSettings EXCEPT !.vendor = OPENAI]
    /\ terms = <<TermA>>
    /\ content = <<"<", "a", ">">>
    /\ Contains(out, <<"&","l","t",";","a","&","g","t",";">>)

(* No term with a transcription is written in c as a whole word.           *)
NoTermOccurs(c, ts) ==
    \A i \in Transcribed(ts) : \A k \in 1..Len(c) : ~WholeWordAt(c, k, ts[i].text)

(* C24: a term that never occurs contributes nothing.  For every vendor,   *)
(* content and settings, generateSSML with terms that do not occur in the  *)
(* content returns the document it returns with the empty term list.       *)
C24_AbsentTerm ==
    (IsGenerate /\ NoTermOccurs(content, terms)) =>
        out = IF op = "generateSSML"
              THEN generateSSML(content, <<>>, settings, language)
              ELSE generateSSML2(content, <<>>, settings, language)

(* Two entries of the list, both with a transcription, have the same text  *)
(* ignoring case.                                                          *)
HasDuplicates(ts) ==
    \E i, j \in Transcribed(ts) :
        i # j /\ toLowerCase(ts[i].text) = toLowerCase(ts[j].text)

(* C25: duplicate terms.  For Google, when two entries with transcriptions *)
(* have the same text ignoring case, each occurrence in the content is     *)
(* wrapped in one phoneme span: there are as many phoneme elements as      *)
(* occurrences and none is nested in another.                              *)
C25_Duplicates ==
    (IsGenerate /\ OnGoogle /\ HasDuplicates(terms)) =>
        /\ NoNestedPhoneme(out)
        /\ Cardinality(Occurrences(out, PhonemeTag))
               = Cardinality({k \in 1..Len(content) :
                                 \E i \in Transcribed(terms) :
                                     WholeWordAt(content, k, terms[i].text)})

(* What a template literal writes for a transcription.                     *)
IpaWritten(term) == IF term.ipa = Undefined THEN Undefined ELSE term.ipa

(* C26: skipped terms.  For every content and vendor, a term without a     *)
(* transcription (absent or empty) gets no phoneme span, a term with empty *)
(* text gives no span without text, and a list of such terms alone leaves  *)
(* the content as plain text without any phoneme element.                  *)
C26_SkippedTerms ==
    (IsGenerate \/ op = "insertPhonemes") =>
        /\ \A i \in 1..Len(terms) :
               ~Truthy(terms[i].ipa)
               => ~Contains(out, <<"p","h","=","\"">> \o IpaWritten(terms[i])
                                     \o <<"\"", ">">> \o terms[i].text \o PhonemeClose)
        /\ (\E i \in 1..Len(terms) : terms[i].text = <<>>)
               => ~Contains(out, <<"\"", ">">> \o PhonemeClose)
        /\ Transcribed(terms) = {}
               => /\ ~Contains(out, PhonemeTag)
                  /\ op = "insertPhonemes" => out = content
                  /\ IsGenerate => Contains(out, <<" ">> \o content \o <<"\n">>)

C26_Witness ==
    /\ op = "insertPhonemes"
    /\ OnGoogle
    /\ terms = <<TermA, TermNoIpa>>
    /\ content = <<"b", " ", "a">>
    /\ out = <<"b", " ">> \o PhonemeSpan(TermA)

Clamp(x, lo, hi) == IF x < lo THEN lo ELSE IF x > hi THEN hi ELSE x

(* C28: clamping.  A pacing, pitch, solemnity, emphasis, expressiveness,   *)
(* ambience or pausing value outside its documented range gives the        *)
(* attribute string, or the pause directives, of the nearest end of the    *)
(* range.                                                                  *)
C28_Clamped ==
    /\ op = "getPacingRate"
           => out = getPacingRate(Clamp(settings.pacing, 500, 1500))
    /\ op = "getPacingRate2"
           => out = getPacingRate2(Clamp(settings.pacing, 500, 2000))
    /\ op = "getPitchShift"
           => out = getPitchShift(Clamp(settings.pitch, 500, 1500))
    /\ op = "getPitchFromSolemnity"
           => out = getPitchFromSolemnity(Clamp(settings.solemnity, 0, 2000))
    /\ op = "getEmphasisLevel"
           => out = getEmphasisLevel(Clamp(settings.emphasis, 0, 2000))
    /\ op = "getExpressivenessLevel"
           => out = getExpressivenessLevel(Clamp(settings.expressiveness, 0, 1000))
    /\ op = "getAmbienceVolume"
           => out = getAmbienceVolume(Clamp(settings.ambience, 0, 1000))
    /\ op = "insertPausing"
           => out = insertPausing(content, Clamp(settings.pausing, 0, 1000))

(* The characters of o outside its tags.                                   *)
VisibleText(o) ==
    Flatten([i \in 1..Len(o) |-> IF InTag(o, i) THEN <<>> ELSE <<o[i]>>])

(* c with each whole-word occurrence of the term written as the glossary   *)
(* writes the term.                                                        *)
InGlossaryCase(c, term) ==
    [i \in 1..Len(c) |->
        IF \E k \in 1..i : WholeWordAt(c, k, term.text) /\ i < k + Len(term.text)
        THEN LET k == CHOOSE k \in 1..i :
                          WholeWordAt(c, k, term.text) /\ i < k + Len(term.text)
             IN  term.text[i - k + 1]
        ELSE c[i]]

(* C29: the wrapped text is the glossary's.  For Google and a list in      *)
(* which one term has a transcription, every phoneme element holds the     *)
(* term's text as the glossary writes it, so the text outside the tags is  *)
(* the content with each occurrence in the glossary's case, and it differs *)
(* from the content when an occurrence is written in another case.         *)
C29_GlossaryText ==
    (/\ op = "insertPhonemes" \/ IsGenerate
     /\ OnGoogle
     /\ Cardinality(Transcribed(terms)) = 1) =>
        LET term == terms[CHOOSE i \in Transcribed(terms) : TRUE]
            body == IF op = "insertPhonemes" THEN out ELSE GoogleBody(out)
        IN  /\ Cardinality(Occurrences(body, <<"\"", ">">> \o term.text \o PhonemeClose))
                   = Cardinality(Occurrences(body, PhonemeTag))
            /\ VisibleText(body) = InGlossaryCase(content, term)
            /\ (\E k \in 1..Len(content) :
                    /\ WholeWordAt(content, k, term.text)
                    /\ SubSeq(content, k, k + Len(term.text) - 1) # term.text)
                   => VisibleText(body) # content

C29_Witness ==
    /\ op = "insertPhonemes"
    /\ OnGoogle
    /\ terms = <<TermA>>
    /\ content = <<"b", " ", "A">>
    /\ out = <<"b", " ">> \o PhonemeSpan(TermA)
    /\ VisibleText(out) = <<"b", " ", "a">>

Punctuation == {".", "?", "!", ","}

(* C30: a break needs white space after the mark.  In what insertPausing   *)
(* returns, for the content alone and for the text generateSSML gives it   *)
(* for Google, every break stands after a punctuation mark and a space,    *)
(* there are no more breaks than marks followed by white space in the text *)
(* it was given, and a text without such a mark (the mark at its end, or   *)
(* before a character that is not white space) comes back unchanged at     *)
(* every intensity.                                                        *)
C30_BreakNeedsSpace ==
    (op = "insertPausing" \/ (op = "generateSSML" /\ OnGoogle)) =>
        LET given == IF op = "insertPausing" THEN content
                     ELSE insertPhonemes(content, terms, GOOGLE)
            result == IF op = "insertPausing" THEN out ELSE GoogleBody(out)
            breaks == Occurrences(result, BreakTime)
        IN  /\ \A k \in breaks :
                   k >= 3 /\ result[k - 1] = " " /\ result[k - 2] \in Punctuation
            /\ Cardinality(breaks) <= Cardinality(FollowedBySpace(given, Punctuation))
            /\ FollowedBySpace(given, Punctuation) = {} => result = given

C30_Witness ==
    /\ op = "insertPausing"
    /\ settings.pausing = 1000
    /\ content = <<",", "a", ".">>
    /\ out = content

====
